---- MODULE Spec2Model ----
(***************************************************************************)
(* puppeteer-navigator: the activity monitor (startActivityMonitor), the   *)
(* poller (pollUntilTrueOrTimeout) and the navigator's actions             *)
(* (_makePageNavigator) of src/src/puppeteer-navigator.ts.                 *)
(*                                                                         *)
(* Time is a discrete clock, `now`, standing for Date.now().  The 50 ms    *)
(* poll interval and the 30000 ms ceiling of line 426 are scaled to        *)
(* Interval and Timeout clock units; their order (Interval < Timeout) and  *)
(* the strict comparisons of the code are kept.                            *)
(***************************************************************************)
EXTENDS Integers, Sequences, FiniteSets, TLC

\* ------------------------------------------------------------------ bounds
Interval == 1       \* poll interval passed at line 426 (50 ms), in clock units
Timeout == 3        \* ceiling passed at line 426 (30000 ms), in clock units
MaxEvents == 2      \* request events (started, finished, failed) delivered to the monitor
MaxCallStart == 1   \* a settle wait starts at most this long after StartTime
MaxChildren == 2    \* child options of the list element select works on
MaxMatches == 2     \* elements a driver query matches
MaxDescendants == 2 \* descendants below a child of the queried parent
MaxLoads == 1       \* DOM-loaded events delivered, where they are counted

Callers == {"page", "frame"}   \* callers that may be inside waitActivity at once
\* (idleTime, idleLoadTime) pairs passed to waitActivity; no idleTime equals a
\* non-zero idleLoadTime, so the threshold a call ended with tells which was used
IdleArgs == {<<0, 0>>, <<2, 0>>, <<0, 1>>, <<2, 1>>, <<2, 3>>}
LoadTimes == {1, 3}            \* the non-zero idleLoadTime values of IdleArgs
StartTime == 5                 \* Date.now() at construction: further from the epoch 0 than any idle time
RequestEvents == {"request", "requestfinished", "requestfailed"}
Horizon == StartTime + MaxCallStart + Timeout + Interval
PageEvents == {"request", "requestfinished", "requestfailed", "domcontentloaded", "close"}

VARIABLES
    now,                      \* Date.now()
    pendingRequests,          \* line 393
    lastRequestActivityTime,  \* line 394
    lastDomLoadedTime,        \* line 395
    listeners,                \* events of the page the monitor is subscribed to (397-401)
    calls,                    \* per caller: its waitForPendingActivity call
    delivered,                \* history: events handed to a listener, by kind
    domSignal,                \* history: a DOM-loaded event arrived and no settle wait returned since
    options,                  \* per navigator: its options object (line 160)
    pc,                       \* per navigator: the await its current action is suspended at
    act,                      \* per navigator: the current action, its target and what it resolved to
    log,                      \* history: the calls the current action has made, in order
    err,                      \* per navigator: the error its current action threw
    updated,                  \* history: updateOptions ran since the current action was called
    present,                  \* the page: the selector matches an element
    requestMonitor,           \* per navigator: the monitor it was made with (line 159)
    given,                    \* history, per navigator: the latest value given for each field
    children,                 \* the page: the child options of the list element, in document order
    document,                 \* the page: what the driver's queries match, and the queried parent's subtree
    query,                    \* the latest query call: function, selector, driver calls issued, outcome
    observed                  \* history, when on: DOM-loaded events delivered, and the requests
                              \* whose start the monitor saw that are still in flight

navVars == <<options, pc, act, log, err, updated, present, requestMonitor, given,
             children, document, query>>

monitorVars == <<pendingRequests, lastRequestActivityTime, lastDomLoadedTime>>

vars == <<now, pendingRequests, lastRequestActivityTime, lastDomLoadedTime,
          listeners, calls, delivered, domSignal, navVars, observed>>

\* No call made yet by this caller.  A call holds the closure variables of
\* waitForPendingActivity (idleTime, idleLoadTime) and of pollUntilTrueOrTimeout
\* (lastTime; due: when its interval timer fires next), and as history the
\* caller's idleTime argument, whether another call was in progress during it,
\* the exit taken and the elapsed time at the resolving tick.  A resolved call
\* keeps st, idleTime, exit and endTime only.
NoCall ==
    [st |-> "none", idleTime |-> 0, idleLoadTime |-> 0, lastTime |-> 0, due |-> 0,
     argIdleTime |-> 0, overlapped |-> FALSE, exit |-> "none", endTime |-> 0]

Polling(c) == calls[c].st = "polling"

\* ------------------------------------------------------- activity monitor
\* startActivityMonitor, lines 393-401: the state right after construction.
startActivityMonitor ==
    /\ pendingRequests = 0
    /\ lastRequestActivityTime = 0
    /\ lastDomLoadedTime = 0
    /\ listeners = PageEvents

\* Mutant of HandlerOf: 'requestfailed' registered with the wrong handler.
HandlerOf_FailedAsStarted(ev) ==
    CASE ev = "request" -> "onRequestStarted"
      [] ev = "requestfinished" -> "onRequestFinished"
      [] ev = "requestfailed" -> "onRequestStarted"
      [] ev = "domcontentloaded" -> "onDomContentLoaded"
      [] ev = "close" -> "stopMonitoring"

\* lines 397-401: the handler registered for each page event.
HandlerOf(ev) ==
    CASE ev = "request" -> "onRequestStarted"
      [] ev = "requestfinished" -> "onRequestFinished"
      [] ev = "requestfailed" -> "onRequestFinished"
      [] ev = "domcontentloaded" -> "onDomContentLoaded"
      [] ev = "close" -> "stopMonitoring"

\* Mutant of onRequestStarted: the start of a request counts as activity.
onRequestStarted_Stamps ==
    /\ pendingRequests' = pendingRequests + 1
    /\ lastRequestActivityTime' = now
    /\ UNCHANGED <<lastDomLoadedTime, listeners>>

\* lines 403-405
onRequestStarted ==
    /\ pendingRequests' = pendingRequests + 1
    /\ UNCHANGED <<lastRequestActivityTime, lastDomLoadedTime, listeners>>

\* Mutant of onRequestFinished: the activity time is not recorded.
onRequestFinished_NoTimestamp ==
    /\ pendingRequests' = pendingRequests - 1
    /\ UNCHANGED <<lastRequestActivityTime, lastDomLoadedTime, listeners>>

\* lines 406-409
onRequestFinished ==
    /\ pendingRequests' = pendingRequests - 1
    /\ lastRequestActivityTime' = now
    /\ UNCHANGED <<lastDomLoadedTime, listeners>>

\* lines 410-412
onDomContentLoaded ==
    /\ lastDomLoadedTime' = now
    /\ UNCHANGED <<pendingRequests, lastRequestActivityTime, listeners>>

\* Mutant of stopMonitoring: the DOM-loaded listener is left subscribed.
stopMonitoring_KeepsDomListener ==
    /\ listeners' = listeners \ (PageEvents \ {"domcontentloaded"})
    /\ UNCHANGED monitorVars

\* lines 414-420
stopMonitoring ==
    /\ listeners' = listeners \ PageEvents
    /\ UNCHANGED monitorVars

\* line 422
pendingRequestCount == pendingRequests

RunHandler(h) ==
    CASE h = "onRequestStarted" -> onRequestStarted
      [] h = "onRequestFinished" -> onRequestFinished
      [] h = "onDomContentLoaded" -> onDomContentLoaded
      [] h = "stopMonitoring" -> stopMonitoring

EventsDelivered ==
    delivered["request"] + delivered["requestfinished"] + delivered["requestfailed"]

\* The history of the events is not kept.
NotObserved == [on |-> FALSE, loads |-> 0, inFlight |-> 0]

\* The history after ev: own tells, of a finished or failed request, whether
\* the monitor had seen it start (a request can be in flight when the monitor
\* subscribes, lines 397-401).
Observe(ev, own) ==
    IF ~observed.on THEN observed
    ELSE CASE ev = "request" -> [observed EXCEPT !.inFlight = @ + 1]
           [] ev \in {"requestfinished", "requestfailed"} ->
                 [observed EXCEPT !.inFlight = IF own THEN @ - 1 ELSE @]
           [] ev = "domcontentloaded" -> [observed EXCEPT !.loads = @ + 1]
           [] OTHER -> observed

\* The page emits ev; the listener registered for it, if any, runs to completion.
PageEmit(ev) ==
    /\ ev \in RequestEvents => EventsDelivered < MaxEvents
    /\ (observed.on /\ ev = "domcontentloaded") => observed.loads < MaxLoads
    /\ ev \in listeners
    /\ RunHandler(HandlerOf(ev))
    /\ delivered' = IF ev \in RequestEvents THEN [delivered EXCEPT ![ev] = @ + 1] ELSE delivered
    /\ domSignal' = (domSignal \/ ev = "domcontentloaded")
    /\ \E own \in BOOLEAN :
          /\ own => observed.inFlight > 0
          /\ observed' = Observe(ev, own)
    /\ UNCHANGED <<now, calls, navVars>>

\* The holder of the monitor object (line 443) calls its stopMonitoring.
StopMonitoring ==
    /\ stopMonitoring
    /\ UNCHANGED <<now, calls, delivered, domSignal, navVars, observed>>

\* ------------------------------------------------------------ settle wait
\* Mutant of EffectiveIdleTime: the load signal is ignored.
EffectiveIdleTime_NoLoad(idleTime, idleLoadTime) == idleTime

\* Mutant of EffectiveIdleTime: `idleTime = idleLoadTime`, without the `|| idleTime`.
EffectiveIdleTime_NoFallback(idleTime, idleLoadTime) ==
    IF lastDomLoadedTime # 0 THEN idleLoadTime ELSE idleTime

\* line 430: `idleTime = idleLoadTime || idleTime`, applied when lastDomLoadedTime is set.
EffectiveIdleTime(idleTime, idleLoadTime) ==
    IF lastDomLoadedTime # 0
    THEN (IF idleLoadTime # 0 THEN idleLoadTime ELSE idleTime)
    ELSE idleTime

\* lines 427-437: the value of idleTime after one evaluation of the poll predicate.
IdleTimeAfterPoll(idleTime, idleLoadTime) ==
    IF pendingRequestCount > 0 THEN idleTime ELSE EffectiveIdleTime(idleTime, idleLoadTime)

\* Mutant of pollFn: the pending count is not consulted.
pollFn_IgnoresPending(idleTime, idleLoadTime) ==
    now - lastRequestActivityTime > EffectiveIdleTime(idleTime, idleLoadTime)

\* Mutant of pollFn: the page counts as idle only once a request has finished.
pollFn_AfterActivityOnly(idleTime, idleLoadTime) ==
    /\ ~(pendingRequestCount > 0)
    /\ lastRequestActivityTime # 0
    /\ now - lastRequestActivityTime > EffectiveIdleTime(idleTime, idleLoadTime)

\* lines 427-437: the result of the poll predicate.
pollFn(idleTime, idleLoadTime) ==
    IF pendingRequestCount > 0
    THEN FALSE
    ELSE now - lastRequestActivityTime > EffectiveIdleTime(idleTime, idleLoadTime)

\* Mutant of TimedOut: the ceiling is never applied.
TimedOut_Never(elapsedTime) == FALSE

\* Mutant of TimedOut: the ceiling is applied one interval late.
TimedOut_Late(elapsedTime) == elapsedTime > Timeout + Interval

\* line 457
TimedOut(elapsedTime) == elapsedTime > Timeout

\* Mutant of ResetDomLoaded: the returning wait leaves the load signal as it is.
ResetDomLoaded_Kept == lastDomLoadedTime

\* line 439, run when the poll has resolved.
ResetDomLoaded == 0

\* lines 424-426 and 447-449: the call captures its arguments and arms the timer.
waitForPendingActivity(c, idleTime, idleLoadTime) ==
    LET others == {d \in Callers \ {c} : Polling(d)} IN
    calls' = [d \in Callers |->
                IF d = c
                THEN [st |-> "polling", idleTime |-> idleTime, idleLoadTime |-> idleLoadTime,
                      lastTime |-> now, due |-> now + Interval, argIdleTime |-> idleTime,
                      overlapped |-> others # {}, exit |-> "none", endTime |-> 0]
                ELSE IF d \in others THEN [calls[d] EXCEPT !.overlapped = TRUE]
                ELSE calls[d]]

\* lines 449-461, with the continuation of lines 439-440 when the poll resolves:
\* one timer callback of caller c's poll.
pollTick(c) ==
    LET call == calls[c]
        elapsedTime == now - call.lastTime
        isTrue == pollFn(call.idleTime, call.idleLoadTime)
        isLate == TimedOut(elapsedTime)
        idleAfter == IdleTimeAfterPoll(call.idleTime, call.idleLoadTime)
    IN  IF isTrue \/ isLate
        THEN /\ calls' = [calls EXCEPT ![c] =
                            [NoCall EXCEPT !.st = "resolved", !.idleTime = idleAfter,
                                           !.endTime = elapsedTime,
                                           !.exit = IF isTrue /\ isLate THEN "both"
                                                    ELSE IF isTrue THEN "true" ELSE "timeout"]]
             /\ lastDomLoadedTime' = ResetDomLoaded
             /\ domSignal' = FALSE
        ELSE /\ calls' = [calls EXCEPT ![c] =
                            [@ EXCEPT !.idleTime = idleAfter, !.due = now + Interval]]
             /\ UNCHANGED <<lastDomLoadedTime, domSignal>>

\* Navigator.waitActivity with explicit arguments, lines 329-331.
WaitActivity(c) ==
    /\ ~Polling(c)
    /\ now <= StartTime + MaxCallStart
    /\ \E args \in IdleArgs : waitForPendingActivity(c, args[1], args[2])
    /\ UNCHANGED <<now, monitorVars, listeners, delivered, domSignal, navVars, observed>>

\* --------------------------------------------------------------- navigator
Navigators == {"page"}
Settling == {"settle1", "settle2"}      \* awaiting waitActivity at line 175 / line 180
Resting == {"idle", "done", "failed"}   \* no action in progress

\* lines 160-167
DefaultOptions ==
    [waitUntilVisible |-> TRUE, waitOnSelectors |-> TRUE, waitAfterAction |-> 0,
     waitIdleTime |-> 0, waitIdleLoadTime |-> 0, useSimulatedClicks |-> TRUE]

OptionNames == DOMAIN DefaultOptions

\* Values a script gives to an option.
OptionValues(k) ==
    CASE k \in {"waitUntilVisible", "waitOnSelectors", "useSimulatedClicks"} -> BOOLEAN
      [] k = "waitAfterAction" -> {0, 500}
      [] k = "waitIdleTime" -> {0, 2}
      [] k = "waitIdleLoadTime" -> {0, 1}

\* customOptions objects passed to updateOptions: no field or one field given.
CustomOptions ==
    {[k \in {} |-> 0]} \cup UNION {[{k} -> OptionValues(k)] : k \in OptionNames}

\* Mutant of Assign: the fields not given go back to their defaults.
Assign_Replace(target, source) ==
    [k \in DOMAIN target |-> IF k \in DOMAIN source THEN source[k] ELSE DefaultOptions[k]]

\* line 171: Object.assign(options, customOptions)
Assign(target, source) ==
    [k \in DOMAIN target |-> IF k \in DOMAIN source THEN source[k] ELSE target[k]]

\* History of the fields given to a navigator, at its creation and by
\* updateOptions, kept when `on`: for each field given so far, its latest value.
NotGiven == [on |-> FALSE, last |-> <<>>]

Given(g, customOptions) ==
    IF g.on
    THEN [g EXCEPT !.last = [k \in DOMAIN g.last \cup DOMAIN customOptions |->
                                IF k \in DOMAIN customOptions THEN customOptions[k]
                                ELSE g.last[k]]]
    ELSE g

\* lines 170-172
updateOptions(n, customOptions) ==
    options' = [options EXCEPT ![n] = Assign(options[n], customOptions)]

\* Mutant of IdlePolicy: waitIdleLoadTime is not consulted.
IdlePolicy_IdleTimeOnly(o) == o.waitIdleTime # 0

\* lines 175 and 180: `options.waitIdleTime || options.waitIdleLoadTime`
IdlePolicy(o) == o.waitIdleTime # 0 \/ o.waitIdleLoadTime # 0

\* lines 175-176: where waitAfter suspends first.
WaitAfterFirst(o) ==
    IF IdlePolicy(o) THEN "settle1"
    ELSE IF o.waitAfterAction # 0 THEN "fixed" ELSE "done"

\* Mutant of WaitAfterSettled: the fixed wait is left out.
WaitAfterSettled_NoFixed(o) == "done"

\* lines 176-177: where waitAfter goes once the settle wait of line 175 has resolved.
WaitAfterSettled(o) == IF o.waitAfterAction # 0 THEN "fixed" ELSE "done"

\* Mutant of WaitAfterFixed: the activity is re-checked whatever the idle policy.
WaitAfterFixed_Always(o) == "settle2"

\* line 180: where waitAfter goes once the fixed wait of line 177 has resolved.
WaitAfterFixed(o) == IF IdlePolicy(o) THEN "settle2" ELSE "done"

\* Mutant of ClickPreWaits: an element handle is pre-waited too.
ClickPreWaits_AnyTarget(o, target) == o.waitOnSelectors

\* line 334
ClickPreWaits(o, target) == o.waitOnSelectors /\ target = "selector"

\* lines 349 and 357
PreWaits(o) == o.waitOnSelectors

\* Mutant of TargetMissing: the missing element is not detected.
TargetMissing_Unchecked(handle) == FALSE

\* line 337: `!targetElement`
TargetMissing(handle) == handle = "none"

\* Mutant of FrameMissing: the missing frame is not detected.
FrameMissing_Unchecked(frame) == FALSE

\* line 384: `!frame`, where frame is what contentFrame() resolved to, or
\* undefined when line 383's `selectElement?.` found no element to ask.
FrameMissing(frame) == frame = "none"

\* Mutant of ClickDispatch: the pointer click is made whatever the option says.
ClickDispatch_Pointer(o) == "click.pointer"

\* lines 339-343: the click dispatch chosen: frame.evaluate(element =>
\* element.click(), targetElement), or targetElement.click(clickOptions).
ClickDispatch(o) == IF o.useSimulatedClicks THEN "click.simulated" ELSE "click.pointer"

\* What frame.$ (or frame.$x) resolves to, lines 205-206 and 360.
QueryResult == IF present THEN "element" ELSE "none"

\* The call an action makes when it comes to suspend at `step`.
CallAt(step) ==
    CASE step \in Settling -> <<"waitActivity">>
      [] step = "fixed" -> <<"waitFor">>
      [] OTHER -> <<>>

\* Navigator n moves on inside waitAfter to `step`, outside a timer callback:
\* waitActivity (lines 329-331) starts the monitor's settle wait with the options.
ProceedWith(n, effects, step) ==
    /\ pc' = [pc EXCEPT ![n] = step]
    /\ log' = [log EXCEPT ![n] = @ \o effects \o CallAt(step)]
    /\ IF step \in Settling
       THEN waitForPendingActivity(n, options[n].waitIdleTime, options[n].waitIdleLoadTime)
       ELSE UNCHANGED calls

\* No action called yet.  An action holds its selector argument (target), its
\* optional argument (arg: goto's waitCondition, waitFn's options.waitAfter,
\* wait's condition), waitOnSelectors as read at the call, and what its awaits
\* resolved to: the element handle, the navigation response, the nested frame;
\* for waitActivity, the two arguments it was called with.
\* Strings are sequences of character codes: "", "a", "\u00E9a", "b".
Strings == {<<>>, <<97>>, <<233, 97>>, <<98>>}

\* The selectOption argument of select: {label?, value?}.
NoSelectOption == [hasLabel |-> FALSE, label |-> <<>>, hasValue |-> FALSE, value |-> <<>>]

SelectOptions ==
    {[hasLabel |-> hl, label |-> l, hasValue |-> hv, value |-> v] :
        hl \in BOOLEAN, l \in Strings, hv \in BOOLEAN, v \in Strings}
    \ {o \in [hasLabel : BOOLEAN, label : Strings, hasValue : BOOLEAN, value : Strings] :
          (~o.hasLabel /\ o.label # <<>>) \/ (~o.hasValue /\ o.value # <<>>)}

\* select(selector, {label: "a"})
ByLabelA == [NoSelectOption EXCEPT !.hasLabel = TRUE, !.label = <<97>>]

\* The option elements a list may hold, and the lists.
OptionElements == [label : Strings, value : Strings, selected : BOOLEAN]

Lists == UNION {[1 .. k -> {e \in OptionElements : ~e.selected}] : k \in 0 .. MaxChildren}

\* The list of the page the navigator's actions run on: one option, selected.
DefaultList == <<[label |-> <<97>>, value |-> <<97>>, selected |-> TRUE]>>

\* lines 366 and 368: `.replace(/[^\x00-\x7F]/g, '')`
StripNonAscii(str) == SelectSeq(str, LAMBDA ch : ch <= 127)

\* Mutant of LabelGiven: a label counts as soon as it is supplied.
LabelGiven_Supplied(selectOption) == selectOption.hasLabel

\* line 365: `if (selectOption.label)`
LabelGiven(selectOption) == selectOption.hasLabel /\ selectOption.label # <<>>

\* Mutant of OptionMatches: labels and values are compared as they are.
OptionMatches_Unstripped(optionElement, selectOption) ==
    IF LabelGiven(selectOption)
    THEN optionElement.label = selectOption.label
    ELSE selectOption.hasValue /\ optionElement.value = selectOption.value

\* lines 366 and 368: the predicate given to find (=== with an undefined value
\* is never true).
OptionMatches(optionElement, selectOption) ==
    IF LabelGiven(selectOption)
    THEN StripNonAscii(optionElement.label) = selectOption.label
    ELSE selectOption.hasValue /\ StripNonAscii(optionElement.value) = selectOption.value

\* Mutant of FindOption: the first child stands in when find returns undefined.
FindOption_FirstChild(list, selectOption) ==
    LET found == {i \in 1 .. Len(list) : OptionMatches(list[i], selectOption)}
    IN  IF found = {} THEN (IF Len(list) > 0 THEN 1 ELSE 0)
        ELSE CHOOSE i \in found : \A j \in found : i <= j

\* lines 365-368: Array.from(selectElement.children).find(...); 0 for undefined.
FindOption(list, selectOption) ==
    LET found == {i \in 1 .. Len(list) : OptionMatches(list[i], selectOption)}
    IN  IF found = {} THEN 0 ELSE CHOOSE i \in found : \A j \in found : i <= j

\* line 370: optionElement.selected = true
MarkSelected(list, i) == [list EXCEPT ![i].selected = TRUE]

\* An argument left undefined in a call of waitActivity (line 329).
Undefined == -1

Proceed(n, step) == ProceedWith(n, <<>>, step)

NoAction ==
    [op |-> "none", target |-> "none", arg |-> "undefined", waitOnSelectors |-> FALSE,
     handle |-> "unset", response |-> "unset", frame |-> "unset",
     idleTime |-> Undefined, idleLoadTime |-> Undefined, selectOption |-> NoSelectOption,
     visible |-> <<>>]

\* Mutant of VisibleOption: the driver's wait is always asked for a visible element.
VisibleOption_Always(o) == <<TRUE>>

\* line 315: the options object `{visible:options.waitUntilVisible}` passed to
\* the driver's wait (<<>> stands for no such call made).
VisibleOption(o) == <<o.waitUntilVisible>>

\* An action is called on navigator n: what it does up to its first await.
\* The script descends into a frame last: no action is called once the frame
\* navigator exists.
Enter(n, a, step, calls_) ==
    /\ pc[n] \in Resting
    /\ requestMonitor[n] # "none"
    /\ requestMonitor["frame"] = "none"
    /\ now + Interval <= StartTime + MaxCallStart
    /\ pc' = [pc EXCEPT ![n] = step]
    /\ log' = [log EXCEPT ![n] = calls_]
    /\ act' = [act EXCEPT ![n] =
                  [a EXCEPT !.waitOnSelectors = options[n].waitOnSelectors,
                            !.visible = IF \E i \in 1 .. Len(calls_) : calls_[i] = "wait"
                                        THEN VisibleOption(options[n]) ELSE <<>>]]
    /\ err' = [err EXCEPT ![n] = "none"]
    /\ updated' = [updated EXCEPT ![n] = FALSE]
    /\ UNCHANGED <<now, monitorVars, listeners, delivered, domSignal, options,
                   present, requestMonitor, given,
                   children, document, query, observed>>

\* An action whose first await is not the settle wait.
Start(n, a, step, calls_) ==
    /\ Enter(n, a, step, calls_)
    /\ UNCHANGED calls

Begin(n, op, target, step, calls_, handle) ==
    Start(n, [NoAction EXCEPT !.op = op, !.target = target, !.handle = handle], step, calls_)

\* An action with an optional argument is called.
BeginArg(n, op, target, arg, step, calls_) ==
    Start(n, [NoAction EXCEPT !.op = op, !.target = target, !.arg = arg], step, calls_)

\* click, lines 333-336, up to its first await: the pre-wait, or the query of a
\* selector, or (for an element handle, returned as it is by line 202) the dispatch.
Click(n, target) ==
    IF ClickPreWaits(options[n], target)
    THEN Begin(n, "click", target, "wait", <<"wait">>, "unset")
    ELSE IF target = "handle"
    THEN Begin(n, "click", target, "op", <<ClickDispatch(options[n])>>, "element")
    ELSE Begin(n, "click", target, "query", <<"query">>, "unset")

\* type, lines 348-351, up to its first await.
Type(n) ==
    IF PreWaits(options[n])
    THEN Begin(n, "type", "selector", "wait", <<"wait">>, "unset")
    ELSE Begin(n, "type", "selector", "op", <<"type">>, "unset")

\* ------------------------------------------------------------- queries
\* A selector argument: a string (a sequence of character codes) or an element
\* handle.  "#a" and "//a".
CssSelector == [type |-> "string", chars |-> <<35, 97>>, handle |-> 0]

XPathSelector == [type |-> "string", chars |-> <<47, 47, 97>>, handle |-> 0]

HandleSelector(e) == [type |-> "object", chars |-> <<>>, handle |-> e]

StringSelectors == {CssSelector, XPathSelector}

\* The match lists of a driver query, in document order.
MatchLists ==
    {m \in UNION {[1 .. k -> 1 .. MaxMatches] : k \in 0 .. MaxMatches} :
        \A i \in 1 .. Len(m) - 1 : m[i] < m[i + 1]}

\* The subtree of the first match: tree[i] is the number of descendants of the
\* i-th child.  Child i is element i; its j-th descendant is element 10 * i + j.
Trees == UNION {[1 .. k -> 0 .. MaxDescendants] : k \in 0 .. MaxChildren}

Descendants(tree, i) == {10 * i + j : j \in 1 .. tree[i]}

TreeElements(tree) ==
    (1 .. Len(tree)) \cup UNION {Descendants(tree, i) : i \in 1 .. Len(tree)}

Documents == [css : MatchLists, xpath : MatchLists, tree : Trees]

EmptyDocument == [css |-> <<>>, xpath |-> <<>>, tree |-> <<>>]

NoQuery ==
    [fn |-> "none", selector |-> HandleSelector(0), descendantFn |-> {},
     issued |-> <<>>, result |-> <<>>, st |-> "none"]

\* selector.startsWith('//'), lines 204 and 211
IsXPath(selector) ==
    Len(selector.chars) >= 2 /\ SubSeq(selector.chars, 1, 2) = <<47, 47>>

\* The first element of a match list as a list of at most one handle: <<>> is
\* the null of frame.$ and the undefined of `[0]` on an empty array.
First(handles) == IF handles = <<>> THEN <<>> ELSE <<handles[1]>>

\* frame.$$(selector) (line 213): the matches, in document order; for a string
\* with the '//' prefix, not a CSS selector, the driver may reject instead.
CssQueryAll(selector) ==
    {[ok |-> TRUE, handles |-> document.css]}
        \cup (IF IsXPath(selector) THEN {[ok |-> FALSE, handles |-> <<>>]} ELSE {})

\* queryElementHandle, lines 201-207.
queryElementHandle(selector) ==
    IF selector.type # "string"
    THEN [issued |-> <<>>, result |-> <<selector.handle>>]
    ELSE IF IsXPath(selector)
         THEN [issued |-> <<"$x">>, result |-> First(document.xpath)]
         ELSE [issued |-> <<"$">>, result |-> First(document.css)]

\* queryElementHandles, lines 209-216; css is the outcome of frame.$$.
queryElementHandles(selector, css) ==
    LET xpath == IF IsXPath(selector) THEN document.xpath ELSE <<>>
        issued == (IF IsXPath(selector) THEN <<"$x">> ELSE <<>>) \o <<"$$">>
    IN  IF css.ok
        THEN [issued |-> issued, result |-> xpath \o css.handles, st |-> "resolved"]
        ELSE [issued |-> issued, result |-> <<>>, st |-> "rejected"]

\* Mutant of isMatch: only the child itself is tested.
isMatch_ChildOnly(tree, descendantFn, childHandle) == childHandle \in descendantFn

\* lines 275-292: the function evaluated in the page for one child.
isMatch(tree, descendantFn, childHandle) ==
    \/ childHandle \in descendantFn
    \/ \E descendant \in Descendants(tree, childHandle) : descendant \in descendantFn

\* queryChildrenAsHandles, lines 267-298.
queryChildrenAsHandles(parentSelector, descendantFn) ==
    LET parentElementHandle == queryElementHandle(parentSelector)
        childrenHandles == [i \in 1 .. Len(document.tree) |-> i]
    IN  IF parentElementHandle.result = <<>>
        THEN [issued |-> parentElementHandle.issued, result |-> <<>>]
        ELSE [issued |-> parentElementHandle.issued \o <<"$x">>
                            \o [i \in 1 .. Len(childrenHandles) |-> "evaluate"],
              result |-> SelectSeq(childrenHandles,
                                   LAMBDA childHandle :
                                       isMatch(document.tree, descendantFn, childHandle))]

Returns(fn, selector, descendantFn, outcome) ==
    /\ query' = [fn |-> fn, selector |-> selector, descendantFn |-> descendantFn,
                 issued |-> outcome.issued, result |-> outcome.result, st |-> outcome.st]
    /\ UNCHANGED <<now, monitorVars, listeners, calls, delivered, domSignal,
                   options, pc, act, log, err, updated, present, requestMonitor, given,
                   children, document, observed>>

\* The script calls queryElementHandle and awaits it.
QueryElementHandle(selector) ==
    LET outcome == queryElementHandle(selector)
    IN  Returns("queryElementHandle", selector, {},
                [issued |-> outcome.issued, result |-> outcome.result, st |-> "resolved"])

\* The script calls queryElementHandles and awaits it.
QueryElementHandles(selector) ==
    \E css \in CssQueryAll(selector) :
        Returns("queryElementHandles", selector, {}, queryElementHandles(selector, css))

\* The script calls queryChildrenAsHandles and awaits it.
QueryChildrenAsHandles(parentSelector, descendantFn) ==
    LET outcome == queryChildrenAsHandles(parentSelector, descendantFn)
    IN  Returns("queryChildrenAsHandles", parentSelector, descendantFn,
                [issued |-> outcome.issued, result |-> outcome.result, st |-> "resolved"])

\* select, lines 356-360, up to its first await.
Select(n, selectOption) ==
    LET a == [NoAction EXCEPT !.op = "select", !.target = "selector",
                              !.selectOption = selectOption]
    IN  IF PreWaits(options[n])
        THEN Start(n, a, "wait", <<"wait">>)
        ELSE Start(n, a, "query", <<"query">>)

\* Values of an optional argument: goto's waitCondition, wait's condition
\* (a selector, the number 0, a non-zero number), waitFn's options.waitAfter.
Conditions == {"undefined", "selector", "zero", "number"}

\* Mutant of Truthy: an argument counts as soon as it is supplied.
Truthy_Supplied(arg) == arg # "undefined"

\* line 194 `if (waitCondition)` and line 325 `options && options.waitAfter`
Truthy(arg) == arg \in {"selector", "number"}

\* wait, lines 313-320, up to its await: frame.waitFor with a selector (line
\* 315) or with a number of milliseconds (line 318).
WaitCall(arg) == IF arg \in {"selector", "function"} THEN "wait" ELSE "wait.number"

WaitStep(arg) == IF arg \in {"selector", "function"} THEN "wait" ELSE "delay"

\* Conditions the script passes to wait: a selector string, a predicate
\* function, the number 0, a non-zero number.
WaitConditions == {"selector", "function", "zero", "number"}

\* wait(condition), lines 313-320, called by the script.
Wait(n, condition) ==
    BeginArg(n, "wait", "none", condition, WaitStep(condition), <<WaitCall(condition)>>)

\* waitFn, lines 322-323, up to its first await.
WaitFn(n, waitAfter) ==
    BeginArg(n, "waitFn", "selector", waitAfter, "wait", <<"wait">>)

\* goto, lines 190-193, up to its first await: frame.goto is called and not
\* awaited, frame.waitForNavigation is awaited.
Goto(n, waitCondition) ==
    BeginArg(n, "goto", "url", waitCondition, "nav", <<"goto", "waitForNavigation">>)

\* frameNavigator, lines 378-382, up to its first await.
FrameNavigator(n) ==
    IF PreWaits(options[n])
    THEN Begin(n, "frameNavigator", "selector", "wait", <<"wait">>, "unset")
    ELSE Begin(n, "frameNavigator", "selector", "query", <<"query">>, "unset")

\* Mutant of Throw: the error is swallowed and the action returns.
Throw_Swallowed(n, e) ==
    /\ pc' = [pc EXCEPT ![n] = "done"]
    /\ UNCHANGED <<now, monitorVars, listeners, calls, delivered, domSignal,
                   options, act, log, err, updated, present, requestMonitor, given,
                   children, document, query, observed>>

\* Mutant of DefaultParam: an undefined argument becomes 0.
DefaultParam_Zero(arg, default) == IF arg = Undefined THEN 0 ELSE arg

\* line 329: `idleTime = options.waitIdleTime`, a default parameter value.
DefaultParam(arg, default) == IF arg = Undefined THEN default ELSE arg

\* waitActivity, lines 329-331, called by the script with each argument given
\* or left undefined: it starts the monitor's settle wait and awaits it.
WaitActivityCall(n) ==
    \E idleTime \in {Undefined} \cup OptionValues("waitIdleTime"),
       idleLoadTime \in {Undefined} \cup OptionValues("waitIdleLoadTime") :
        /\ Enter(n, [NoAction EXCEPT !.op = "waitActivity", !.idleTime = idleTime,
                                     !.idleLoadTime = idleLoadTime],
                 "activity", <<"waitForPendingActivity">>)
        /\ waitForPendingActivity(n, DefaultParam(idleTime, options[n].waitIdleTime),
                                  DefaultParam(idleLoadTime, options[n].waitIdleLoadTime))

\* The action throws e: nothing more of it runs.
Throw(n, e) ==
    /\ pc' = [pc EXCEPT ![n] = "failed"]
    /\ err' = [err EXCEPT ![n] = e]
    /\ UNCHANGED <<now, monitorVars, listeners, calls, delivered, domSignal,
                   options, act, log, updated, present, requestMonitor, given,
                   children, document, query, observed>>

\* The driver's selector wait (line 315) resolves: the element is there.  The
\* action goes on to its next call (lines 336, 351, 360); wait returns the
\* handle the driver resolved with, and waitFn keeps it (line 323).
PreWaitResolves(n) ==
    /\ pc[n] = "wait"
    /\ present
    /\ LET op == act[n].op
           step == CASE op = "type" -> "op"
                     [] op \in {"wait", "goto"} -> "done"
                     [] op = "waitFn" -> "predicate"
                     [] OTHER -> "query"
           call == CASE op = "type" -> <<"type">>
                     [] op \in {"wait", "goto"} -> <<>>
                     [] op = "waitFn" -> <<"waitForFunction">>
                     [] OTHER -> <<"query">>
       IN  /\ pc' = [pc EXCEPT ![n] = step]
           /\ log' = [log EXCEPT ![n] = @ \o call]
           /\ act' = IF op \in {"wait", "waitFn"}
                     THEN [act EXCEPT ![n].handle = "element"]
                     ELSE act
    /\ UNCHANGED <<now, monitorVars, listeners, calls, delivered, domSignal,
                   options, err, updated, present, requestMonitor, given,
                   children, document, query, observed>>

\* Mutant of WaitRejection: the rejection is turned into click's own error.
WaitRejection_AsNotFound == "ElementNotFound"

\* lines 315 and 335, 350, 358, 380: the driver's wait is awaited without a
\* catch, so the action rejects with the error the driver's wait rejected with.
WaitRejection == "TimeoutError"

\* The driver's selector wait (line 315) times out.
PreWaitTimesOut(n) ==
    /\ pc[n] = "wait"
    /\ ~present
    /\ Throw(n, WaitRejection)

\* frame.$ resolves.  click (lines 336-343) throws when there is no element and
\* dispatches the click otherwise; select (lines 360-361) evaluates in the page.
QueryResolves(n) ==
    /\ pc[n] = "query"
    /\ IF \/ act[n].op = "click" /\ TargetMissing(QueryResult)
          \/ act[n].op = "frameNavigator" /\ FrameMissing(QueryResult)
       THEN /\ pc' = [pc EXCEPT ![n] = "failed"]
            /\ err' = [err EXCEPT ![n] = IF act[n].op = "click" THEN "ElementNotFound"
                                         ELSE "FrameNotFound"]
            /\ log' = log
       ELSE /\ pc' = [pc EXCEPT ![n] = IF act[n].op = "frameNavigator" THEN "frame" ELSE "op"]
            /\ err' = err
            /\ log' = [log EXCEPT ![n] =
                          Append(@, CASE act[n].op = "click" -> ClickDispatch(options[n])
                                      [] act[n].op = "frameNavigator" -> "contentFrame"
                                      [] OTHER -> "select")]
    /\ act' = [act EXCEPT ![n].handle = QueryResult]
    /\ UNCHANGED <<now, monitorVars, listeners, calls, delivered, domSignal,
                   options, updated, present, requestMonitor, given,
                   children, document, query, observed>>

\* The driver operation of the action can be carried out: frame.type finds its
\* element; the function select evaluates got an element.
OpCanResolve(n) ==
    CASE act[n].op = "click" -> act[n].handle = "element"
      [] act[n].op = "type" -> present
      [] act[n].op = "select" ->
            act[n].handle = "element" /\ FindOption(children, act[n].selectOption) # 0

\* The driver operation (lines 340, 342, 351, 361) resolves: waitAfter starts.
\* The function select evaluates in the page (lines 361-373) has marked the
\* option found and dispatched one change event on the list.
OpResolves(n) ==
    /\ pc[n] = "op"
    /\ OpCanResolve(n)
    /\ IF act[n].op = "select"
       THEN /\ children' = MarkSelected(children, FindOption(children, act[n].selectOption))
            /\ ProceedWith(n, <<"option.selected", "change">>, WaitAfterFirst(options[n]))
       ELSE /\ children' = children
            /\ Proceed(n, WaitAfterFirst(options[n]))
    /\ UNCHANGED <<now, monitorVars, listeners, delivered, domSignal,
                   options, act, err, updated, present, requestMonitor, given,
                   document, query, observed>>

\* The driver operation rejects: the action throws the driver's error.
OpRejects(n) ==
    /\ pc[n] = "op"
    /\ ~OpCanResolve(n)
    /\ Throw(n, IF act[n].op = "select" THEN "EvaluationError" ELSE "DriverError")

\* The fixed wait of line 177 (frame.waitFor(number), line 318) resolves.
FixedWaitResolves(n) ==
    /\ pc[n] = "fixed"
    /\ Proceed(n, WaitAfterFixed(options[n]))
    /\ UNCHANGED <<now, monitorVars, listeners, delivered, domSignal,
                   options, act, err, updated, present, requestMonitor, given,
                   children, document, query, observed>>

\* frame.waitForNavigation (line 193) resolves with the response; goto then
\* waits for its condition (line 195) or runs waitAfter (line 196).
NavigationResolves(n) ==
    /\ pc[n] = "nav"
    /\ act' = [act EXCEPT ![n].response = "response",
                          ![n].visible = IF WaitCall(act[n].arg) = "wait" /\ Truthy(act[n].arg)
                                         THEN VisibleOption(options[n]) ELSE <<>>]
    /\ IF Truthy(act[n].arg)
       THEN /\ pc' = [pc EXCEPT ![n] = WaitStep(act[n].arg)]
            /\ log' = [log EXCEPT ![n] = Append(@, WaitCall(act[n].arg))]
            /\ UNCHANGED calls
       ELSE Proceed(n, WaitAfterFirst(options[n]))
    /\ UNCHANGED <<now, monitorVars, listeners, delivered, domSignal,
                   options, err, updated, present, requestMonitor, given,
                   children, document, query, observed>>

\* frame.waitForNavigation (line 193) rejects: the navigation timed out.
NavigationRejects(n) ==
    /\ pc[n] = "nav"
    /\ Throw(n, "NavigationTimeout")

\* frame.waitFor(number) (line 318) resolves, for wait(number), for goto's
\* numeric condition and for waitFn's waitAfter (line 326).
DelayResolves(n) ==
    /\ pc[n] = "delay"
    /\ pc' = [pc EXCEPT ![n] = "done"]
    /\ UNCHANGED <<now, monitorVars, listeners, calls, delivered, domSignal,
                   options, act, log, err, updated, present, requestMonitor, given,
                   children, document, query, observed>>

\* frame.waitForFunction (line 324) resolves: waitFn then waits options.waitAfter
\* if given (lines 325-326).
PredicateResolves(n) ==
    /\ pc[n] = "predicate"
    /\ IF Truthy(act[n].arg)
       THEN /\ pc' = [pc EXCEPT ![n] = "delay"]
            /\ log' = [log EXCEPT ![n] = Append(@, "wait.number")]
       ELSE /\ pc' = [pc EXCEPT ![n] = "done"]
            /\ log' = log
    /\ UNCHANGED <<now, monitorVars, listeners, calls, delivered, domSignal,
                   options, act, err, updated, present, requestMonitor, given,
                   children, document, query, observed>>

\* frame.waitForFunction (line 324) times out.
PredicateTimesOut(n) ==
    /\ pc[n] = "predicate"
    /\ Throw(n, WaitRejection)

\* Mutant of FrameMonitor: the frame navigator gets a monitor of its own.
FrameMonitor_Fresh(parentMonitor) == "monitor2"

\* line 385: the monitor passed to _makePageNavigator for the frame.
FrameMonitor(parentMonitor) == parentMonitor

\* Mutant of FramePolicy: the frame navigator starts from the defaults.
FramePolicy_Defaults(parentOptions) == DefaultOptions

\* lines 385 and 160-168: the frame navigator's options, the defaults
\* overridden by the parent's options object.
FramePolicy(parentOptions) == Assign(DefaultOptions, parentOptions)

\* selectElement.contentFrame() (line 383) resolves, with the nested frame or
\* with null; lines 384-385 throw or make the frame's navigator.
ContentFrameResolves(n) ==
    /\ pc[n] = "frame"
    /\ \E frame \in {"frame", "none"} :
          /\ act' = [act EXCEPT ![n].frame = frame]
          /\ IF FrameMissing(frame)
             THEN /\ pc' = [pc EXCEPT ![n] = "failed"]
                  /\ err' = [err EXCEPT ![n] = "FrameNotFound"]
                  /\ UNCHANGED <<log, options, requestMonitor, given,
                   children, document, query, observed>>
             ELSE /\ pc' = [pc EXCEPT ![n] = "done"]
                  /\ err' = err
                  /\ log' = [log EXCEPT ![n] = Append(@, "makeNavigator")]
                  /\ options' = [options EXCEPT !["frame"] = FramePolicy(options[n])]
                  /\ given' = [given EXCEPT !["frame"] =
                                  Given([given[n] EXCEPT !.last = <<>>], options[n])]
                  /\ requestMonitor' =
                         [requestMonitor EXCEPT !["frame"] = FrameMonitor(requestMonitor[n])]
    /\ UNCHANGED <<now, monitorVars, listeners, calls, delivered, domSignal,
                   updated, present, children, document, query, observed>>

\* The script calls updateOptions on a navigator it holds.
UpdateOptions(n) ==
    /\ requestMonitor[n] # "none"
    /\ \E customOptions \in CustomOptions :
          /\ updateOptions(n, customOptions)
          /\ given' = [given EXCEPT ![n] = Given(@, customOptions)]
    /\ updated' = [updated EXCEPT ![n] = (pc[n] # "idle")]
    /\ UNCHANGED <<now, monitorVars, listeners, calls, delivered, domSignal,
                   pc, act, log, err, present, requestMonitor, children, document, query, observed>>

\* The page changes: the element appears or goes away.
PageChange ==
    /\ present' = ~present
    /\ UNCHANGED <<now, monitorVars, listeners, calls, delivered, domSignal,
                   options, pc, act, log, err, updated, requestMonitor, given,
                   children, document, query, observed>>

\* The timer of caller c's poll fires.  When the poll resolves and a navigator's
\* waitAfter awaits it, waitAfter goes on in the same turn of the event loop; a
\* waitActivity called by the script returns.
Tick(c) ==
    /\ Polling(c)
    /\ now = calls[c].due
    /\ pollTick(c)
    /\ IF c \in Navigators /\ pc[c] \in Settling \cup {"activity"} /\ calls'[c].st = "resolved"
       THEN LET step == IF pc[c] = "settle1" THEN WaitAfterSettled(options[c]) ELSE "done"
            IN  /\ pc' = [pc EXCEPT ![c] = step]
                /\ log' = [log EXCEPT ![c] = @ \o CallAt(step)]
       ELSE UNCHANGED <<pc, log>>
    /\ UNCHANGED <<now, pendingRequests, lastRequestActivityTime, listeners, delivered,
                   options, act, err, updated, present, requestMonitor, given,
                   children, document, query, observed>>

\* The clock advances; timer callbacks run when they are due (no tick is late).
\* The clock stops at Horizon, by which every settle wait has returned.
AdvanceTime ==
    /\ \A c \in Callers : Polling(c) => now < calls[c].due
    /\ now < Horizon
    /\ now' = now + 1
    /\ UNCHANGED <<monitorVars, listeners, calls, delivered, domSignal, navVars, observed>>

\* ---------------------------------------------------------- specification
\* makePageNavigator(page, customOptions), lines 150-153 and 159-168.
makePageNavigator(customOptions, history) ==
    /\ now = StartTime
    /\ startActivityMonitor
    /\ calls = [c \in Callers |-> NoCall]
    /\ delivered = [ev \in RequestEvents |-> 0]
    /\ domSignal = FALSE
    /\ options = [n \in Callers |->
                     IF n \in Navigators THEN Assign(DefaultOptions, customOptions)
                     ELSE DefaultOptions]
    /\ pc = [n \in Callers |-> "idle"]
    /\ act = [n \in Callers |-> NoAction]
    /\ log = [n \in Callers |-> <<>>]
    /\ err = [n \in Callers |-> "none"]
    /\ updated = [n \in Callers |-> FALSE]
    /\ present = TRUE
    /\ requestMonitor = [n \in Callers |-> IF n \in Navigators THEN "monitor" ELSE "none"]
    /\ given = [n \in Callers |->
                   IF n \in Navigators /\ history
                   THEN Given([on |-> TRUE, last |-> <<>>], customOptions)
                   ELSE NotGiven]
    /\ query = NoQuery

\* makePageNavigator(page): no custom options.
Init ==
    /\ makePageNavigator(<<>>, FALSE)
    /\ children = DefaultList /\ document = EmptyDocument /\ observed = NotObserved

Next ==
    \/ \E ev \in PageEvents : PageEmit(ev)
    \/ StopMonitoring
    \/ \E c \in Callers : WaitActivity(c)
    \/ \E c \in Callers : Tick(c)
    \/ AdvanceTime

Spec == Init /\ [][Next]_vars

\* The navigator's actions on a page without network events: the script calls
\* updateOptions, click, type and select; the clock advances while a settle wait polls.
NavNext ==
    \/ \E n \in Callers : UpdateOptions(n)
    \/ \E n \in Navigators, target \in {"selector", "handle"} : Click(n, target)
    \/ \E n \in Navigators : Type(n)
    \/ \E n \in Navigators : Select(n, ByLabelA)
    \/ \E n \in Navigators, condition \in WaitConditions : Wait(n, condition)
    \/ \E n \in Navigators, waitAfter \in Conditions \ {"selector"} : WaitFn(n, waitAfter)
    \/ \E n \in Navigators, waitCondition \in Conditions : Goto(n, waitCondition)
    \/ \E n \in Navigators : FrameNavigator(n)
    \/ \E n \in Navigators : WaitActivityCall(n)
    \/ \E n \in Navigators : NavigationResolves(n)
    \/ \E n \in Navigators : NavigationRejects(n)
    \/ \E n \in Navigators : DelayResolves(n)
    \/ \E n \in Navigators : PredicateResolves(n)
    \/ \E n \in Navigators : PredicateTimesOut(n)
    \/ \E n \in Navigators : ContentFrameResolves(n)
    \/ \E n \in Navigators : PreWaitResolves(n)
    \/ \E n \in Navigators : PreWaitTimesOut(n)
    \/ \E n \in Navigators : QueryResolves(n)
    \/ \E n \in Navigators : OpResolves(n)
    \/ \E n \in Navigators : OpRejects(n)
    \/ \E n \in Navigators : FixedWaitResolves(n)
    \/ \E n \in Navigators : Tick(n)
    \/ PageChange
    \/ (\E n \in Navigators : Polling(n)) /\ AdvanceTime

NavSpec == Init /\ [][NavNext]_vars

\* The policies of a page navigator made with custom options and of the frame
\* navigator it makes: the script calls updateOptions on either and
\* frameNavigator on the page's; the history of given fields is kept.
PolicyInit ==
    /\ \E customOptions \in CustomOptions : makePageNavigator(customOptions, TRUE)
    /\ children = DefaultList
    /\ document = EmptyDocument
    /\ observed = NotObserved

PolicyNext ==
    \/ \E n \in Callers : UpdateOptions(n)
    \/ \E n \in Navigators : FrameNavigator(n)
    \/ \E n \in Navigators : PreWaitResolves(n)
    \/ \E n \in Navigators : PreWaitTimesOut(n)
    \/ \E n \in Navigators : QueryResolves(n)
    \/ \E n \in Navigators : ContentFrameResolves(n)
    \/ PageChange

PolicySpec == PolicyInit /\ [][PolicyNext]_vars

\* Frame descent on a live page: the script updates the page navigator's
\* policy and calls frameNavigator while the page emits its events.
FrameNext ==
    \/ \E n \in Navigators : UpdateOptions(n)
    \/ \E n \in Navigators : FrameNavigator(n)
    \/ \E n \in Navigators : PreWaitResolves(n)
    \/ \E n \in Navigators : PreWaitTimesOut(n)
    \/ \E n \in Navigators : QueryResolves(n)
    \/ \E n \in Navigators : ContentFrameResolves(n)
    \/ PageChange
    \/ \E ev \in PageEvents : PageEmit(ev)

FrameSpec == Init /\ [][FrameNext]_vars

\* select on a page whose list holds any options: the script calls select with
\* any label and value.
SelectInit ==
    /\ makePageNavigator(<<>>, FALSE)
    /\ children \in Lists /\ document = EmptyDocument /\ observed = NotObserved

SelectNext ==
    \/ \E n \in Navigators, selectOption \in SelectOptions : Select(n, selectOption)
    \/ \E n \in Navigators : PreWaitResolves(n)
    \/ \E n \in Navigators : PreWaitTimesOut(n)
    \/ \E n \in Navigators : QueryResolves(n)
    \/ \E n \in Navigators : OpResolves(n)
    \/ \E n \in Navigators : OpRejects(n)
    \/ PageChange

SelectSpec == SelectInit /\ [][SelectNext]_vars

\* The query functions on any document: the script calls them with any
\* selector and any predicate over the elements below the parent.
QueryInit ==
    /\ makePageNavigator(<<>>, FALSE)
    /\ children = DefaultList /\ document \in Documents /\ observed = NotObserved

QueryNext ==
    \/ \E selector \in StringSelectors \cup {HandleSelector(e) : e \in 1 .. MaxMatches} :
          QueryElementHandle(selector)
    \/ \E selector \in StringSelectors : QueryElementHandles(selector)
    \/ \E parentSelector \in StringSelectors,
          descendantFn \in SUBSET TreeElements(document.tree) :
          QueryChildrenAsHandles(parentSelector, descendantFn)

QuerySpec == QueryInit /\ [][QueryNext]_vars

\* The monitor and its callers as in Spec, with the history of the events
\* kept: the DOM-loaded events are counted, and so are the requests in flight
\* whose start the monitor saw.
ObservedInit ==
    /\ makePageNavigator(<<>>, FALSE)
    /\ children = DefaultList /\ document = EmptyDocument
    /\ observed = [NotObserved EXCEPT !.on = TRUE]

ObservedSpec == ObservedInit /\ [][Next]_vars

\* The actions of a navigator left with its default options on a live page:
\* the page emits its events while the script calls goto, click, type, select
\* and waitActivity.
DefaultsNext ==
    \/ \E ev \in PageEvents : PageEmit(ev)
    \/ \E n \in Navigators, waitCondition \in Conditions : Goto(n, waitCondition)
    \/ \E n \in Navigators, target \in {"selector", "handle"} : Click(n, target)
    \/ \E n \in Navigators : Type(n)
    \/ \E n \in Navigators : Select(n, ByLabelA)
    \/ \E n \in Navigators : WaitActivityCall(n)
    \/ \E n \in Navigators : NavigationResolves(n)
    \/ \E n \in Navigators : NavigationRejects(n)
    \/ \E n \in Navigators : DelayResolves(n)
    \/ \E n \in Navigators : PreWaitResolves(n)
    \/ \E n \in Navigators : PreWaitTimesOut(n)
    \/ \E n \in Navigators : QueryResolves(n)
    \/ \E n \in Navigators : OpResolves(n)
    \/ \E n \in Navigators : OpRejects(n)
    \/ \E n \in Navigators : Tick(n)
    \/ PageChange
    \/ (\E n \in Navigators : Polling(n)) /\ AdvanceTime

DefaultsSpec == Init /\ [][DefaultsNext]_vars

\* Timers keep firing and the clock keeps advancing.
LiveSpec == Spec /\ WF_vars(AdvanceTime) /\ \A c \in Callers : WF_vars(Tick(c))

\* ------------------------------------------------------------------ claims
\* A step in which the timer callback of caller c's poll runs.
TickStep(c) ==
    /\ Polling(c)
    /\ (calls'[c].st = "resolved" \/ calls'[c].due > calls[c].due)

\* C1: every settle wait in progress eventually resolves, whatever the page
\* events do (the pending count may stay above zero forever), as long as the
\* timers fire and the clock advances; a call only ever resolves.
C1_AlwaysResolves ==
    \A c \in Callers : Polling(c) ~> (calls[c].st = "resolved")

C1_Witness ==
    \E c \in Callers :
        /\ calls[c].st = "resolved" /\ calls[c].exit = "timeout"
        /\ pendingRequests > 0 /\ delivered["requestfinished"] + delivered["requestfailed"] = 0

\* C2: a settle wait that resolves on a tick whose elapsed time does not exceed
\* the ceiling does so with no pending request counted and with the last
\* request activity further back than the idle threshold in force on that tick.
C2_SettledOnlyWhenIdle ==
    [][\A c \in Callers :
          (TickStep(c) /\ calls'[c].st = "resolved" /\ now - calls[c].lastTime <= Timeout)
              => /\ ~(pendingRequestCount > 0)
                 /\ now - lastRequestActivityTime > calls'[c].idleTime]_vars

C2_Witness ==
    \E c \in Callers :
        /\ calls[c].st = "resolved" /\ calls[c].exit = "true"
        /\ calls[c].idleTime > 0 /\ calls[c].endTime > Interval
        /\ lastRequestActivityTime > 0

\* C3 as stated: a settle wait still in progress has not yet seen the ceiling elapse.
C3_Stated ==
    \A c \in Callers : Polling(c) => now - calls[c].lastTime <= Timeout

\* C3: measured from the call, a settle wait is over at the first tick whose
\* elapsed time strictly exceeds the ceiling: with ticks on schedule, no later
\* than the ceiling plus one poll interval.
C3_CeilingPlusInterval ==
    \A c \in Callers :
        /\ Polling(c) => now - calls[c].lastTime <= Timeout + Interval
        /\ calls[c].st = "resolved" => calls[c].endTime <= Timeout + Interval

C3_Witness ==
    \E c \in Callers :
        /\ calls[c].st = "resolved" /\ calls[c].exit = "timeout"
        /\ calls[c].endTime > Timeout
        /\ pendingRequests > 0

\* C4: the pending count equals the number of request-started events delivered
\* minus the numbers of request-finished and request-failed events delivered.
C4_PendingIsStartedMinusDone ==
    pendingRequestCount =
        delivered["request"] - delivered["requestfinished"] - delivered["requestfailed"]

C4_Witness ==
    /\ delivered["request"] = 1 /\ delivered["requestfailed"] = 1
    /\ pendingRequestCount = 0

\* C5: the pending count is never negative (a finished or failed event without
\* a preceding started event is clamped at 0).
C5_NeverNegative == pendingRequestCount >= 0

\* C6 as stated: in a settle wait that overlaps no other, a tick after a
\* DOM-loaded event not yet consumed by a returned wait uses idleLoadTime, and
\* any other tick uses the caller's idleTime.
C6_Stated ==
    [][\A c \in Callers :
          (TickStep(c) /\ ~calls[c].overlapped /\ ~(pendingRequestCount > 0))
              => calls'[c].idleTime =
                    IF domSignal THEN calls[c].idleLoadTime ELSE calls[c].argIdleTime]_vars

\* C6: as C6_Stated, but idleLoadTime is used only when it is non-zero; with
\* idleLoadTime = 0 the caller's idleTime stays the threshold.
C6_LoadThresholdOnce ==
    [][\A c \in Callers :
          (TickStep(c) /\ ~calls[c].overlapped /\ ~(pendingRequestCount > 0))
              => calls'[c].idleTime =
                    IF domSignal /\ calls[c].idleLoadTime # 0
                    THEN calls[c].idleLoadTime ELSE calls[c].argIdleTime]_vars

\* The page's wait consumed a load signal and used idleLoadTime; the frame's
\* wait, started after it returned and with no new DOM-loaded event, has been
\* held back on a tick by its own idleTime.
C6_Witness ==
    /\ calls["page"].st = "resolved" /\ calls["page"].idleTime \in LoadTimes
    /\ Polling("frame") /\ ~calls["frame"].overlapped
    /\ calls["frame"].due > calls["frame"].lastTime + Interval
    /\ ~domSignal /\ pendingRequests = 0 /\ lastRequestActivityTime > 0
    /\ calls["frame"].idleLoadTime # 0
    /\ calls["frame"].idleLoadTime < calls["frame"].argIdleTime
    /\ calls["frame"].idleTime = calls["frame"].argIdleTime

PostWait(n) == SelectSeq(log[n], LAMBDA e : e \in {"waitActivity", "waitFor"})

DriverOps == {"click.simulated", "click.pointer", "type", "select"}

\* The actions that end with waitAfter: click (line 345), type (353), select
\* (375) and goto when it does not wait for a condition (line 196).
RunsWaitAfter(a) ==
    \/ a.op \in {"click", "type", "select"}
    \/ a.op = "goto" /\ ~Truthy(a.arg)

\* The post-action wait the options ask for.
ExpectedPostWait(o) ==
    LET idle == o.waitIdleTime # 0 \/ o.waitIdleLoadTime # 0
        settle == IF idle THEN <<"waitActivity">> ELSE <<>>
    IN  settle \o (IF o.waitAfterAction # 0 THEN <<"waitFor">> \o settle ELSE <<>>)

\* C8: the post-action wait is a settle wait iff an idle-time option is
\* non-zero, then a fixed wait iff waitAfterAction is non-zero, then a second
\* settle wait iff the fixed wait ran and an idle-time option is non-zero; each
\* starts only when the one before has resolved; never more than two settle
\* waits and one fixed wait, and no second settle wait without the fixed wait.
C8_WaitAfterOrder ==
    \A n \in Navigators :
        LET post == PostWait(n) IN
        /\ post \in {<<>>, <<"waitActivity">>, <<"waitFor">>,
                     <<"waitActivity", "waitFor">>, <<"waitFor", "waitActivity">>,
                     <<"waitActivity", "waitFor", "waitActivity">>}
        /\ (pc[n] = "done" /\ ~updated[n] /\ RunsWaitAfter(act[n]))
              => post = ExpectedPostWait(options[n])
        /\ RunsWaitAfter(act[n]) => (Polling(n) <=> pc[n] \in Settling)
        /\ pc[n] \in {"wait", "query", "op"} => post = <<>>
        /\ pc[n] = "settle1" => post = <<"waitActivity">>
        /\ pc[n] = "fixed" => post[Len(post)] = "waitFor"
        /\ pc[n] = "settle2" => (Len(post) >= 2 /\ post[Len(post) - 1] = "waitFor")

C8_Witness ==
    \E n \in Navigators :
        /\ pc[n] = "done" /\ ~updated[n]
        /\ PostWait(n) = <<"waitActivity", "waitFor", "waitActivity">>

\* C9: click, type and select start the selector pre-wait iff waitOnSelectors
\* was true at the call (click: and the target is a string; an element handle
\* is neither pre-waited nor queried); the driver operation starts only after
\* the pre-wait has resolved, and the post-action wait only after the driver
\* operation has completed.
C9_PreWaitProtocol ==
    \A n \in Navigators :
        act[n].op \in {"click", "type", "select"} =>
            LET l == log[n]
                pre == act[n].waitOnSelectors /\ act[n].target = "selector"
            IN  /\ pre <=> (Len(l) > 0 /\ l[1] = "wait")
                /\ \A i \in 2 .. Len(l) : l[i] # "wait"
                /\ act[n].target = "handle" => \A i \in 1 .. Len(l) : l[i] \notin {"wait", "query"}
                /\ pc[n] = "wait" => l = <<"wait">>
                /\ pc[n] = "op" => l[Len(l)] \in DriverOps
                /\ \A i \in 1 .. Len(l) :
                      l[i] \in {"waitActivity", "waitFor"} =>
                          \E j \in 1 .. (i - 1) : l[j] \in DriverOps

C9_Witness ==
    \E n \in Navigators :
        /\ pc[n] = "done" /\ act[n].op = "click" /\ act[n].target = "selector"
        /\ log[n] = <<"wait", "query", "click.simulated", "waitFor">>

\* C10: a click whose target resolves to no element fails with the
\* element-not-found error, and then no click has been dispatched and no
\* post-action wait (settle or fixed) has been started.
C10_ClickNotFound ==
    \A n \in Navigators :
        /\ (act[n].op = "click" /\ act[n].handle = "none")
              => (pc[n] = "failed" /\ err[n] = "ElementNotFound")
        /\ err[n] = "ElementNotFound"
              => /\ act[n].op = "click" /\ act[n].handle = "none" /\ pc[n] = "failed"
                 /\ \A i \in 1 .. Len(log[n]) :
                       log[n][i] \notin DriverOps \cup {"waitActivity", "waitFor"}
                 /\ ~Polling(n)

C10_Witness ==
    \E n \in Navigators :
        /\ err[n] = "ElementNotFound" /\ ~act[n].waitOnSelectors
        /\ log[n] = <<"query">>

\* C11 as stated: a click that pre-waits for a selector the page does not
\* contain fails, when the pre-wait gives up, with the element-not-found error.
C11_Stated ==
    [][\A n \in Navigators :
          (act[n].op = "click" /\ pc[n] = "wait" /\ pc'[n] = "failed")
              => err'[n] = "ElementNotFound"]_vars

\* C11: with waitOnSelectors, click on a selector the page does not contain
\* does not fail at the call but suspends in the pre-wait; when the pre-wait
\* times out the click fails with the driver's TimeoutError, having made no
\* query; the element-not-found error arises only after a pre-wait that resolved.
C11_PreWaitTimeout ==
    /\ [][\A n \in Navigators :
            /\ (pc[n] \in Resting /\ pc'[n] \notin Resting /\ act'[n].op = "click"
                   /\ act'[n].waitOnSelectors /\ act'[n].target = "selector")
                  => (pc'[n] = "wait" /\ err'[n] = "none")
            /\ (act[n].op = "click" /\ pc[n] = "wait" /\ pc'[n] = "failed")
                  => (~present /\ err'[n] = "TimeoutError" /\ log'[n] = <<"wait">>)]_vars
    /\ [](\A n \in Navigators :
            (act[n].op = "click" /\ act[n].waitOnSelectors /\ act[n].target = "selector"
               /\ err[n] = "ElementNotFound")
                => log[n] = <<"wait", "query">>)

C11_Witness ==
    \E n \in Navigators :
        /\ act[n].op = "click" /\ act[n].waitOnSelectors /\ options[n].waitAfterAction = 0
        /\ pc[n] = "failed" /\ err[n] = "TimeoutError" /\ log[n] = <<"wait">> /\ ~present

\* The calls an action has made when one of its driver waits has timed out:
\* those up to the wait, the wait being the last and made once.
CallsUpToTimeout(a) ==
    CASE a.op \in {"click", "type", "select", "frameNavigator", "wait"} -> {<<"wait">>}
      [] a.op = "waitFn" -> {<<"wait">>, <<"wait", "waitForFunction">>}
      [] a.op = "goto" -> {<<"goto", "waitForNavigation", "wait">>}
      [] OTHER -> {}

C13_GotoProtocol ==
    \A n \in Navigators :
        (act[n].op = "goto" /\ pc[n] = "done")
            => /\ act[n].response = "response"
               /\ SubSeq(log[n], 1, 2) = <<"goto", "waitForNavigation">>
               /\ IF act[n].arg # "undefined"
                  THEN /\ PostWait(n) = <<>>
                       /\ log[n] \in {<<"goto", "waitForNavigation", WaitCall(act[n].arg)>>}
                                      \cup (IF act[n].arg = "zero"
                                            THEN {<<"goto", "waitForNavigation">>} ELSE {})
                  ELSE ~updated[n] => PostWait(n) = ExpectedPostWait(options[n])

C15_WaitsAfterLoad ==
    [][\A c \in Callers :
          (TickStep(c) /\ calls'[c].st = "resolved" /\ calls'[c].exit = "true"
             /\ ~calls[c].overlapped /\ calls[c].idleLoadTime > 0
             /\ lastDomLoadedTime # 0 /\ lastDomLoadedTime <= calls[c].lastTime)
              => now >= lastDomLoadedTime + calls[c].idleLoadTime]_vars

\* The script holds navigator n.
Exists(n) == requestMonitor[n] # "none"

\* C16: the policy of a navigator made with custom options c and then updated
\* by updateOptions(p1) ... updateOptions(pn) has, for every field, the value
\* given last among c, p1, ..., pn, and the default where none gave the field.
C16_PolicyIsOverride ==
    \A n \in Callers :
        Exists(n) =>
            options[n] = [k \in OptionNames |->
                            IF k \in DOMAIN given[n].last THEN given[n].last[k]
                            ELSE DefaultOptions[k]]

\* updateOptions({waitAfterAction: 500}) on a default navigator.
C16_Witness ==
    /\ DOMAIN given["page"].last = {"waitAfterAction", "waitOnSelectors"}
    /\ options["page"] = [DefaultOptions EXCEPT !.waitAfterAction = 500]

\* C17: the step of frameNavigator that makes the frame's navigator gives it a
\* policy equal to the parent's and leaves the parent's as it is; a policy
\* changes only in a step of updateOptions on its navigator (so the policy
\* copied is the one at the call unless the parent was updated meanwhile), and
\* such a step leaves the other navigator's policy unchanged.
C17_PolicyCopiedByValue ==
    [][/\ (~Exists("frame") /\ Exists("frame")')
            => \E n \in Navigators :
                  /\ pc[n] = "frame" /\ pc'[n] = "done"
                  /\ options'["frame"] = options[n] /\ options'[n] = options[n]
       /\ \A n \in Callers :
            (Exists(n) /\ options'[n] # options[n])
                => /\ pc' = pc /\ requestMonitor' = requestMonitor
                   /\ pc[n] # "idle" => updated'[n]
                   /\ \A m \in Callers \ {n} : options'[m] = options[m]]_vars

\* The frame's navigator holds a non-default policy copied from its parent,
\* and the two policies have since been made to differ.
C17_Witness ==
    /\ Exists("frame") /\ options["frame"] # DefaultOptions
    /\ options["frame"] # options["page"] /\ options["page"] # DefaultOptions
    /\ options["frame"].waitIdleTime # 0 /\ options["page"].waitIdleTime # 0

\* C18: every navigator the script holds, the frame's included, is bound to
\* the monitor makePageNavigator started; the step that makes the frame's
\* navigator passes on its parent's monitor, subscribes no listener and leaves
\* the monitor's counters and timestamps as they are.
C18_SharedMonitor ==
    /\ [](\A n \in Callers : Exists(n) => requestMonitor[n] = "monitor")
    /\ [][(~Exists("frame") /\ Exists("frame")')
            => /\ \E n \in Navigators :
                     pc[n] = "frame" /\ requestMonitor'["frame"] = requestMonitor[n]
               /\ listeners' = listeners
               /\ pendingRequests' = pendingRequests
               /\ lastRequestActivityTime' = lastRequestActivityTime
               /\ lastDomLoadedTime' = lastDomLoadedTime]_vars

C18_Witness ==
    /\ Exists("frame") /\ requestMonitor["frame"] = requestMonitor["page"]
    /\ pc["page"] = "done" /\ act["page"].op = "frameNavigator"
    /\ listeners = PageEvents /\ pendingRequests > 0 /\ lastDomLoadedTime # 0

\* C19: a frameNavigator whose selector resolved to no element, or to an
\* element whose contentFrame is null, has failed with the frame-not-found
\* error and has made no navigator; the failing step leaves every policy, the
\* navigators' monitor bindings, the listeners and the monitor's state unchanged.
C19_FrameNotFound ==
    /\ [](\A n \in Navigators :
            /\ (act[n].op = "frameNavigator" /\ (act[n].handle = "none" \/ act[n].frame = "none"))
                  => /\ pc[n] = "failed" /\ err[n] = "FrameNotFound"
                     /\ ~Exists("frame")
                     /\ \A i \in 1 .. Len(log[n]) : log[n][i] # "makeNavigator"
            /\ err[n] = "FrameNotFound"
                  => (act[n].op = "frameNavigator"
                      /\ (act[n].handle = "none" \/ act[n].frame = "none")))
    /\ [][\A n \in Navigators :
            (err[n] # "FrameNotFound" /\ err'[n] = "FrameNotFound")
                => /\ options' = options /\ requestMonitor' = requestMonitor
                   /\ listeners' = listeners /\ calls' = calls
                   /\ pendingRequests' = pendingRequests
                   /\ lastRequestActivityTime' = lastRequestActivityTime
                   /\ lastDomLoadedTime' = lastDomLoadedTime]_vars

\* The element was found and hosts no frame, under a non-default policy.
C19_Witness ==
    \E n \in Navigators :
        /\ err[n] = "FrameNotFound" /\ act[n].handle = "element" /\ act[n].frame = "none"
        /\ log[n] = <<"wait", "query", "contentFrame">>
        /\ options[n] # DefaultOptions /\ pendingRequests > 0 /\ lastDomLoadedTime # 0

\* C20: a waitActivity called by the script has made one call, the monitor's
\* settle wait, and nothing else; while that wait polls, it holds the
\* arguments given, with the policy's waitIdleTime / waitIdleLoadTime as they
\* were at the call in place of an argument left undefined; waitActivity is
\* pending exactly as long as the settle wait and returns in the step it resolves.
C20_WaitActivityPassThrough ==
    \A n \in Navigators :
        act[n].op = "waitActivity" =>
            /\ log[n] = <<"waitForPendingActivity">>
            /\ pc[n] \in {"activity", "done"}
            /\ pc[n] = "activity" <=> Polling(n)
            /\ pc[n] = "done" <=> calls[n].st = "resolved"
            /\ (Polling(n) /\ ~updated[n]) =>
                  /\ calls[n].argIdleTime =
                        (IF act[n].idleTime = Undefined THEN options[n].waitIdleTime
                         ELSE act[n].idleTime)
                  /\ calls[n].idleLoadTime =
                        (IF act[n].idleLoadTime = Undefined THEN options[n].waitIdleLoadTime
                         ELSE act[n].idleLoadTime)

\* waitActivity(undefined, 0) after updateOptions({waitIdleTime: 2}) and
\* updateOptions({waitIdleLoadTime: 1}) has returned: its settle wait ran with
\* the threshold 2.
C20_Witness ==
    \E n \in Navigators :
        /\ act[n].op = "waitActivity" /\ ~updated[n] /\ pc[n] = "done"
        /\ act[n].idleTime = Undefined /\ act[n].idleLoadTime = 0
        /\ options[n].waitIdleTime = 2 /\ options[n].waitIdleLoadTime = 1
        /\ calls[n].st = "resolved" /\ calls[n].idleTime = 2 /\ calls[n].exit = "true"

\* C21: a run of stopMonitoring, on the page's close event or called again,
\* leaves none of the five listeners subscribed and changes nothing else; the
\* listeners are all five or none; once it has run, listeners stay
\* unsubscribed whatever runs, and no step other than a settle wait's own
\* changes pendingRequests, lastRequestActivityTime or lastDomLoadedTime.
C21_StopUnsubscribesAll ==
    /\ [](listeners \in {PageEvents, {}})
    /\ [][/\ listeners' # listeners
               => (listeners' = {} /\ UNCHANGED <<monitorVars, calls, now>>)
          /\ listeners = {}
               => /\ listeners' = {}
                  /\ UNCHANGED <<pendingRequests, lastRequestActivityTime>>
                  /\ lastDomLoadedTime' # lastDomLoadedTime
                        => \E c \in Callers : Polling(c) /\ calls'[c].st = "resolved"]_vars

\* Stopped with a request still counted and a load signal set, and with
\* request events the page can still emit.
C21_Witness ==
    /\ listeners = {} /\ pendingRequests > 0 /\ lastDomLoadedTime # 0
    /\ EventsDelivered < MaxEvents

\* C22: a request-failed event, like a request-finished event, lowers the
\* pending count by one, sets lastRequestActivityTime to the current time and
\* changes nothing else of the monitor; and when every request started has
\* finished or failed, a tick that finds the last activity further back than
\* its threshold resolves the settle wait as settled.
C22_FailedIsFinished ==
    [][/\ \A ev \in {"requestfinished", "requestfailed"} :
            delivered'[ev] # delivered[ev]
                => /\ pendingRequests' = pendingRequests - 1
                   /\ lastRequestActivityTime' = now
                   /\ UNCHANGED <<lastDomLoadedTime, listeners, calls, now>>
       /\ \A c \in Callers :
            (TickStep(c)
               /\ delivered["request"] = delivered["requestfinished"] + delivered["requestfailed"]
               /\ now - lastRequestActivityTime > calls'[c].idleTime)
                => (calls'[c].st = "resolved" /\ calls'[c].exit \in {"true", "both"})]_vars

\* The one request started has failed; a settle wait with a non-zero threshold,
\* held back on its first tick, has then resolved as settled, within the ceiling.
C22_Witness ==
    \E c \in Callers :
        /\ delivered["request"] = 1 /\ delivered["requestfailed"] = 1
        /\ delivered["requestfinished"] = 0 /\ pendingRequests = 0
        /\ lastRequestActivityTime > 0
        /\ calls[c].st = "resolved" /\ calls[c].exit = "true"
        /\ calls[c].idleTime > 0 /\ calls[c].endTime > Interval
        /\ calls[c].endTime <= Timeout

\* C23: the first tick of a settle wait called with idleTime = 0 and
\* idleLoadTime = 0 resolves it as settled, one poll interval after the call,
\* when the pending count is zero and has been since the call (no request has
\* finished or failed after the call was made).
C23_ZeroThresholdsFirstTick ==
    [][\A c \in Callers :
          (TickStep(c) /\ calls[c].argIdleTime = 0 /\ calls[c].idleLoadTime = 0
             /\ pendingRequestCount = 0 /\ lastRequestActivityTime <= calls[c].lastTime)
              => /\ calls'[c].st = "resolved" /\ calls'[c].exit \in {"true", "both"}
                 /\ calls[c].due = calls[c].lastTime + Interval
                       => (calls'[c].exit = "true" /\ calls'[c].endTime = Interval)]_vars

C23_Witness ==
    \E c \in Callers :
        /\ calls[c].st = "resolved" /\ calls[c].exit = "true"
        /\ calls[c].endTime = Interval /\ calls[c].idleTime = 0
        /\ pendingRequests = 0 /\ EventsDelivered = 0 /\ lastDomLoadedTime = 0

\* An option matches a request as the description of select has it: by its
\* label when a label is supplied, otherwise by its value, non-ASCII removed.
MatchesRequest(optionElement, selectOption) ==
    IF selectOption.hasLabel
    THEN StripNonAscii(optionElement.label) = selectOption.label
    ELSE selectOption.hasValue /\ StripNonAscii(optionElement.value) = selectOption.value

FirstMatch(list, selectOption) ==
    LET found == {i \in 1 .. Len(list) : MatchesRequest(list[i], selectOption)}
    IN  IF found = {} THEN 0 ELSE CHOOSE i \in found : \A j \in found : i <= j

\* The in-page function of a select of navigator n completes in this step.
SelectStep(n) ==
    /\ act[n].op = "select" /\ act[n].handle = "element"
    /\ pc[n] = "op" /\ pc'[n] # "op"

\* C24: when the in-page function of select completes on a list with a child
\* that matches the request (by label when a label is supplied, label first
\* when both are, otherwise by value, non-ASCII characters removed), the first
\* such child in document order is the one marked selected and no other
\* child changes; exactly one change event is dispatched on the list, after
\* the marking and before the first call of the post-action wait.
C24_SelectMarksFirstMatch ==
    [][\A n \in Navigators :
          LET first == FirstMatch(children, act[n].selectOption) IN
          (SelectStep(n) /\ first # 0)
              => /\ pc'[n] # "failed"
                 /\ children' = [children EXCEPT ![first].selected = TRUE]
                 /\ log'[n] = log[n] \o <<"option.selected", "change">>
                                    \o CallAt(WaitAfterFirst(options[n]))]_vars

\* C25: when the in-page function of select completes on a list no child of
\* which matches the requested label or value, select fails with the evaluation
\* error, and in that step no child's selected state changes, no change event
\* is dispatched and no post-action wait is started; a select that has failed
\* so has dispatched no change event and made no wait after its evaluate call.
C25_NoMatchThrows ==
    /\ [](\A n \in Navigators :
            err[n] = "EvaluationError"
                => /\ act[n].op = "select" /\ pc[n] = "failed" /\ ~Polling(n)
                   /\ log[n][Len(log[n])] = "select"
                   /\ \A i \in 1 .. Len(log[n]) :
                         log[n][i] \notin {"option.selected", "change", "waitActivity", "waitFor"})
    /\ [][\A n \in Navigators :
            (SelectStep(n)
               /\ \A i \in 1 .. Len(children) :
                     /\ ~MatchesRequest(children[i], act[n].selectOption)
                     /\ ~OptionMatches(children[i], act[n].selectOption))
                => /\ pc'[n] = "failed" /\ err'[n] = "EvaluationError"
                   /\ UNCHANGED <<children, log, calls>>]_vars

C25_Witness ==
    \E n \in Navigators :
        /\ err[n] = "EvaluationError" /\ act[n].handle = "element"
        /\ act[n].selectOption = [hasLabel |-> TRUE, label |-> <<233, 97>>,
                                  hasValue |-> FALSE, value |-> <<>>]
        /\ Len(children) = 2 /\ children[1].label = <<233, 97>>
        /\ \A i \in 1 .. 2 : ~children[i].selected

\* C26: queryElementHandle and queryElementHandles have waited for nothing
\* when they return; for a string with the '//' prefix they have issued the
\* XPath query only and return its first match, respectively all its matches
\* and nothing else; for any other string they have issued the CSS query only
\* and return its first match, respectively its matches; queryElementHandle
\* of an element handle has issued no query and returns the handle.
C26_QueryByKind ==
    query.fn \in {"queryElementHandle", "queryElementHandles"} =>
        LET one == query.fn = "queryElementHandle" IN
        /\ query.st = "resolved"
        /\ \A n \in Callers : pc[n] = "idle" /\ ~Polling(n)
        /\ IF query.selector.type # "string"
           THEN query.issued = <<>> /\ query.result = <<query.selector.handle>>
           ELSE IF IsXPath(query.selector)
                THEN /\ query.issued = <<"$x">>
                     /\ query.result = IF one THEN First(document.xpath) ELSE document.xpath
                ELSE /\ query.issued = IF one THEN <<"$">> ELSE <<"$$">>
                     /\ query.result = IF one THEN First(document.css) ELSE document.css

\* C27: queryChildrenAsHandles returns the empty list when the parent selector
\* matches nothing; otherwise it returns, each once and in the document order
\* of the children, exactly the immediate children of the first match for
\* which descendantFn holds of the child itself or of one of its descendants;
\* it has waited for nothing.
C27_ChildrenByDescendant ==
    query.fn = "queryChildrenAsHandles" =>
        LET parents == IF IsXPath(query.selector) THEN document.xpath ELSE document.css
            result == query.result
        IN  /\ query.st = "resolved"
            /\ \A n \in Callers : pc[n] = "idle" /\ ~Polling(n)
            /\ \A i \in 1 .. Len(query.issued) : query.issued[i] \in {"$", "$x", "evaluate"}
            /\ parents = <<>> => result = <<>>
            /\ parents # <<>> =>
                  /\ \A i \in 1 .. Len(result) - 1 : result[i] < result[i + 1]
                  /\ {result[i] : i \in 1 .. Len(result)} =
                        {c \in 1 .. Len(document.tree) :
                            \/ c \in query.descendantFn
                            \/ \E d \in Descendants(document.tree, c) : d \in query.descendantFn}

\* Children [item 0, item 1 holding a span]; the predicate holds of the span only.
C27_Witness ==
    /\ query.fn = "queryChildrenAsHandles" /\ query.selector = CssSelector
    /\ document.css # <<>> /\ document.tree = <<0, 1>>
    /\ query.descendantFn = {21} /\ query.result = <<2>>

\* C28: the call of a poll evaluates nothing: it leaves the poll in progress
\* with its first tick one interval ahead; the predicate is evaluated on ticks
\* only, one interval apart; the poll resolves on a tick exactly when the
\* predicate is true or the time elapsed since the call strictly exceeds the
\* timeout on that tick; a resolved poll has no further tick; and with ticks
\* on schedule a poll resolves at most one interval past the timeout.
C28_PollProtocol ==
    /\ [](\A c \in Callers :
            /\ Polling(c) => /\ calls[c].due > calls[c].lastTime
                             /\ calls[c].due <= now + Interval
                             /\ now <= calls[c].due
            /\ calls[c].st = "resolved"
                  => /\ calls[c].endTime >= Interval
                     /\ calls[c].endTime <= Timeout + Interval
                     /\ calls[c].exit = "timeout" => calls[c].endTime > Timeout)
    /\ [][\A c \in Callers :
            /\ (~Polling(c) /\ calls'[c].st = "polling")
                  => /\ calls'[c].lastTime = now /\ calls'[c].due = now + Interval
                     /\ calls'[c].idleTime = calls'[c].argIdleTime
                     /\ UNCHANGED <<monitorVars, now>>
            /\ calls'[c].st = "resolved" /\ calls[c].st # "resolved" => TickStep(c)
            /\ calls[c].st = "resolved" /\ calls'[c] # calls[c] => calls'[c].st = "polling"
            /\ TickStep(c)
                  => /\ now = calls[c].due
                     /\ calls'[c].st = "resolved"
                           <=> \/ pollFn(calls[c].idleTime, calls[c].idleLoadTime)
                               \/ now - calls[c].lastTime > Timeout
                     /\ calls'[c].st = "polling" => calls'[c].due = calls[c].due + Interval
                     /\ calls'[c].st = "resolved" => calls'[c].endTime = now - calls[c].lastTime]_vars

C28_Witness ==
    \E c \in Callers :
        /\ calls[c].st = "resolved" /\ calls[c].exit = "both"
        /\ calls[c].endTime = Timeout + Interval

\* C29: in the step in which a settle wait returns, by settling or by the
\* ceiling, lastDomLoadedTime becomes 0, also when a DOM-loaded event arrived
\* after the call was made; that step is the final poll tick itself, and no
\* page event is processed in it.
C29_ReturnClearsDomLoaded ==
    [][\A c \in Callers :
          (Polling(c) /\ calls'[c].st = "resolved")
              => /\ calls'[c].exit \in {"true", "timeout", "both"}
                 /\ lastDomLoadedTime' = 0
                 /\ now = calls[c].due
                 /\ UNCHANGED <<pendingRequests, lastRequestActivityTime, listeners,
                                delivered, now>>]_vars

\* A wait that ran to the ceiling with requests pending has returned; a
\* DOM-loaded event had put the load threshold in force, and is cleared.
C29_Witness ==
    \E c \in Callers :
        /\ calls[c].st = "resolved" /\ calls[c].exit = "timeout"
        /\ calls[c].idleTime \in LoadTimes
        /\ lastDomLoadedTime = 0 /\ ~domSignal
        /\ \A d \in Callers \ {c} : calls[d].st = "none"

\* C30: a request-started step adds one to the pending count and changes
\* neither timestamp; a request-finished or request-failed step takes one from
\* the count and sets lastRequestActivityTime, and leaves lastDomLoadedTime; a
\* DOM-loaded step changes lastDomLoadedTime only; a step of a settle wait (its
\* call or a tick) leaves the count and lastRequestActivityTime, and changes
\* lastDomLoadedTime only by the reset made when the wait returns; no such
\* step changes the policy of any navigator.
C30_StepsOwnTheirState ==
    [][/\ delivered'["request"] # delivered["request"]
             => /\ pendingRequests' = pendingRequests + 1
                /\ UNCHANGED <<lastRequestActivityTime, lastDomLoadedTime, options, calls>>
       /\ \A ev \in {"requestfinished", "requestfailed"} :
             delivered'[ev] # delivered[ev]
                 => /\ pendingRequests' = pendingRequests - 1
                    /\ lastRequestActivityTime' = now
                    /\ UNCHANGED <<lastDomLoadedTime, options, calls>>
       /\ (lastDomLoadedTime' # lastDomLoadedTime /\ lastDomLoadedTime' # 0)
             => /\ lastDomLoadedTime' = now
                /\ UNCHANGED <<pendingRequests, lastRequestActivityTime, options, calls,
                               delivered>>
       /\ calls' # calls
             => /\ UNCHANGED <<pendingRequests, lastRequestActivityTime, options, delivered>>
                /\ lastDomLoadedTime' # lastDomLoadedTime
                      => /\ lastDomLoadedTime' = 0
                         /\ \E c \in Callers : Polling(c) /\ calls'[c].st = "resolved"
       /\ pendingRequests' # pendingRequests => delivered' # delivered
       /\ lastRequestActivityTime' # lastRequestActivityTime => delivered' # delivered
       /\ lastDomLoadedTime' # lastDomLoadedTime
             => (calls' # calls \/ lastDomLoadedTime' = now)]_vars

\* A request has started and none has finished: the count is 1 and
\* lastRequestActivityTime is as construction left it; a DOM-loaded event
\* delivered since is recorded, and a settle wait is in progress past its first tick.
C30_Witness ==
    \E c \in Callers :
        /\ delivered = [ev \in RequestEvents |-> IF ev = "request" THEN 1 ELSE 0]
        /\ pendingRequests = 1 /\ lastRequestActivityTime = 0
        /\ lastDomLoadedTime > StartTime
        /\ Polling(c) /\ calls[c].due > calls[c].lastTime + Interval

\* C31: wait(condition) issues exactly one driver wait: for a selector string
\* or a predicate function the driver's wait with visible equal to the
\* policy's waitUntilVisible as it is at the call, and it returns the handle
\* that wait resolved with; for a number the fixed-duration wait, and it
\* returns no handle; it never starts a settle wait of the activity monitor.
C31_WaitByKind ==
    /\ [](\A n \in Navigators :
            act[n].op = "wait" =>
                LET timed == act[n].arg \in {"zero", "number"} IN
                /\ log[n] = IF timed THEN <<"wait.number">> ELSE <<"wait">>
                /\ ~Polling(n)
                /\ timed => act[n].visible = <<>>
                /\ pc[n] = "done" => (act[n].handle = IF timed THEN "unset" ELSE "element"))
    /\ [][\A n \in Navigators :
            /\ (act'[n].op = "wait" /\ pc[n] \in Resting /\ pc'[n] \notin Resting
                  /\ act'[n].arg \in {"selector", "function"})
                  => act'[n].visible = <<options[n].waitUntilVisible>>
            /\ act'[n].op = "wait" => UNCHANGED <<calls, monitorVars>>]_vars

C31_Witness ==
    \E n \in Navigators :
        /\ act[n].op = "wait" /\ act[n].arg = "function" /\ pc[n] = "done"
        /\ act[n].visible = <<FALSE>> /\ act[n].handle = "element"
        /\ ~options[n].waitUntilVisible

\* C32: waitFn first awaits the selector wait; when that has resolved it
\* starts the predicate wait, against the element the selector wait resolved
\* to; when the predicate wait has resolved it applies the fixed delay iff
\* options.waitAfter is non-zero, and then returns; a step that fails ends
\* waitFn with none of the later steps started.
C32_WaitFnOrder ==
    \A n \in Navigators :
        act[n].op = "waitFn" =>
            LET l == log[n]
                delayed == act[n].arg \notin {"undefined", "zero"}
            IN  /\ pc[n] = "wait" => (l = <<"wait">> /\ act[n].handle = "unset")
                /\ pc[n] = "predicate"
                      => (l = <<"wait", "waitForFunction">> /\ act[n].handle = "element")
                /\ pc[n] = "delay"
                      => (l = <<"wait", "waitForFunction", "wait.number">> /\ delayed)
                /\ pc[n] = "done"
                      => l = IF delayed THEN <<"wait", "waitForFunction", "wait.number">>
                             ELSE <<"wait", "waitForFunction">>
                /\ pc[n] = "failed"
                      => /\ l \in {<<"wait">>, <<"wait", "waitForFunction">>}
                         /\ err[n] = "TimeoutError"
                         /\ l = <<"wait">> <=> act[n].handle = "unset"
                /\ pc[n] \in {"wait", "predicate", "delay", "done", "failed"}
                /\ ~Polling(n)

C32_Witness ==
    \E n \in Navigators :
        /\ act[n].op = "waitFn" /\ pc[n] = "done" /\ act[n].arg = "number"
        /\ log[n] = <<"wait", "waitForFunction", "wait.number">>
        /\ act[n].handle = "element"

\* C33: a click that has returned has made exactly one click dispatch; the
\* dispatch is made in the step in which the target is resolved, and it is the
\* in-page synthetic click when useSimulatedClicks is true in that step and
\* the driver's pointer click when it is false.
C33_OneClickDispatch ==
    /\ [](\A n \in Navigators :
            act[n].op = "click" =>
                LET made == {i \in 1 .. Len(log[n]) :
                                log[n][i] \in {"click.simulated", "click.pointer"}}
                IN  /\ Cardinality(made) <= 1
                    /\ pc[n] \in {"op", "done"} \cup Settling \cup {"fixed"}
                          => Cardinality(made) = 1
                    /\ pc[n] \in {"wait", "query"} => made = {})
    /\ [][\A n \in Navigators :
            (act'[n].op = "click" /\ pc'[n] = "op" /\ pc[n] # "op")
                => /\ act'[n].handle = "element"
                   /\ log'[n][Len(log'[n])] =
                         IF options[n].useSimulatedClicks THEN "click.simulated"
                         ELSE "click.pointer"
                   /\ options' = options]_vars

\* The option was set to false while click was in its pre-wait.
C33_Witness ==
    \E n \in Navigators :
        /\ act[n].op = "click" /\ pc[n] = "done" /\ updated[n]
        /\ options[n] = [DefaultOptions EXCEPT !.useSimulatedClicks = FALSE]
        /\ log[n] = <<"wait", "query", "click.pointer">>

\* A call that has applied the load threshold: in progress with a threshold
\* other than the caller's idleTime, or returned with one.
UsedLoadTime(c) ==
    \/ Polling(c) /\ calls[c].idleTime # calls[c].argIdleTime
    \/ calls[c].st = "resolved" /\ calls[c].idleTime \in LoadTimes

C35_NotSettledWhileInFlight ==
    [][\A c \in Callers :
          (TickStep(c) /\ calls'[c].st = "resolved" /\ calls'[c].exit = "true")
              => observed.inFlight = 0]_vars

\* C36: once the listeners are removed while the pending count is above 0,
\* the count never changes again, and a settle wait in progress then or
\* started later resolves only on a tick whose elapsed time exceeds the
\* ceiling, never as settled.
C36_ClosedWhilePending ==
    [][(listeners = {} /\ pendingRequests > 0)
          => /\ pendingRequests' = pendingRequests /\ listeners' = {}
             /\ \A c \in Callers :
                   (Polling(c) /\ calls'[c].st = "resolved")
                       => /\ calls'[c].exit = "timeout"
                          /\ now - calls[c].lastTime > Timeout]_vars

\* A wait called after the page closed with a request pending has returned.
C36_Witness ==
    \E c \in Callers :
        /\ listeners = {} /\ pendingRequests > 0
        /\ calls[c].st = "resolved" /\ calls[c].exit = "timeout"
        /\ calls[c].endTime = Timeout + Interval
        /\ now = StartTime + MaxCallStart + Timeout + Interval
        /\ lastRequestActivityTime = 0

WaitAfterActions == {"goto", "click", "type", "select"}

\* What goto, click, type and select leave alone with the default options:
\* they start no settle wait, and lastDomLoadedTime is reset only when a
\* waitActivity called by the script returns.
LeavesMonitorAlone(n) ==
    /\ act'[n].op \in WaitAfterActions
          => /\ calls' = calls
             /\ UNCHANGED monitorVars \/ delivered' # delivered \/ lastDomLoadedTime' = now
             /\ \A i \in 1 .. Len(log'[n]) :
                   log'[n][i] \notin {"waitActivity", "waitForPendingActivity"}
    /\ (lastDomLoadedTime # 0 /\ lastDomLoadedTime' = 0)
          => (act[n].op = "waitActivity" /\ Polling(n) /\ calls'[n].st = "resolved")

\* A tick of a waitActivity called by the script finds the load signal set
\* and no request pending.
LoadSignalSeen(n) ==
    /\ TickStep(n) /\ act[n].op = "waitActivity"
    /\ lastDomLoadedTime # 0 /\ ~(pendingRequestCount > 0)

\* C37 as stated: with the default options goto, click, type and select start
\* no settle wait and do not reset lastDomLoadedTime, and the waitActivity
\* called next, finding the load signal set, applies idleLoadTime.
C37_Stated ==
    [][\A n \in Navigators :
          /\ LeavesMonitorAlone(n)
          /\ LoadSignalSeen(n) => calls'[n].idleTime = calls[n].idleLoadTime]_vars

\* C37: with the default options goto, click, type and select start no
\* settle wait (so they return whatever the pending count is) and do not
\* reset lastDomLoadedTime; a load signal recorded meanwhile stays set until
\* a waitActivity called by the script returns, and that wait applies its
\* idleLoadTime when it is non-zero and its idleTime when idleLoadTime is 0.
C37_DefaultsSkipSettleWait ==
    [][\A n \in Navigators :
          /\ LeavesMonitorAlone(n)
          /\ LoadSignalSeen(n)
                => calls'[n].idleTime = IF calls[n].idleLoadTime # 0
                                        THEN calls[n].idleLoadTime
                                        ELSE calls[n].idleTime]_vars

\* A click has returned with a request pending and the load signal set.
C37_Witness ==
    \E n \in Navigators :
        /\ act[n].op = "click" /\ pc[n] = "done"
        /\ options[n] = DefaultOptions
        /\ pendingRequests > 0 /\ lastDomLoadedTime # 0
        /\ calls[n] = NoCall

====
